---------------------------- MODULE Spec2Model ----------------------------
(***************************************************************************)
(* Model of src/main.c: a UART-driven traffic-light sequencer for Zephyr.  *)
(* Five threads of equal priority: uart_receive_task, dispatcher_task and  *)
(* the three light tasks (red, green, yellow).  Every kernel call and      *)
(* every access to shared memory is one step; the threads interleave       *)
(* freely.  Text is a sequence of one-character strings.                   *)
(***************************************************************************)
EXTENDS Integers, Sequences, FiniteSets, TLC

\* ------------------------------------------------------------------ bounds
\* Size of the ring buffer, of uart_msg and of msg.  main.c:22 sets 256; the
\* model scales it down so that wrap-around and overflow are reachable.
MAX_MSG_LEN == 16

\* Longest body, in entries, and largest in-range repeat count of the messages
\* of the specification SpecParse.
MaxEntries == 3
MaxRep == 2

\* Upper limit of the repeat count accepted by the assert of main.c:235.
MAX_REPEAT == 100

NUL == "NUL"
LF == "\n"
CR == "\r"

Workers == {"R", "G", "Y"}

\* ------------------------------------------------------------- C library
Digits == <<"0", "1", "2", "3", "4", "5", "6", "7", "8", "9">>

IsDigit(c) == \E i \in 1..10 : Digits[i] = c

DigitVal(c) == (CHOOSE i \in 1..10 : Digits[i] = c) - 1

IsSpace(c) == c \in {" ", "\t", LF, CR}

\* The rest of string s from 0-based offset p on.
From(s, p) == SubSeq(s, p + 1, Len(s))

\* strchr: 0-based offset of the first c in s, or -1 (NULL).
StrChr(s, c) ==
    IF \E i \in 1..Len(s) : s[i] = c
    THEN (CHOOSE i \in 1..Len(s) : s[i] = c /\ \A j \in 1..(i - 1) : s[j] # c) - 1
    ELSE -1

\* Number of leading white-space characters of s.
RECURSIVE SpaceRun(_)
SpaceRun(s) ==
    IF s # <<>> /\ IsSpace(Head(s)) THEN 1 + SpaceRun(Tail(s)) ELSE 0

\* Number of leading digits of s.
RECURSIVE DigitRun(_)
DigitRun(s) ==
    IF s # <<>> /\ IsDigit(Head(s)) THEN 1 + DigitRun(Tail(s)) ELSE 0

\* Value of the digit string s, read left to right.
RECURSIVE DigitsValue(_, _)
DigitsValue(s, acc) ==
    IF s = <<>> THEN acc ELSE DigitsValue(Tail(s), 10 * acc + DigitVal(Head(s)))

\* The %d conversion of scanf on s: skips white space, takes an optional sign
\* and at least one digit.  n is the number of characters consumed.
ScanInt(s) ==
    LET sp   == SpaceRun(s)
        t    == From(s, sp)
        sg   == IF t # <<>> /\ Head(t) \in {"-", "+"} THEN 1 ELSE 0
        u    == From(t, sg)
        k    == DigitRun(u)
        mag  == DigitsValue(SubSeq(u, 1, k), 0)
    IN  IF k = 0
        THEN [ok |-> FALSE, val |-> 0, n |-> 0]
        ELSE [ok |-> TRUE,
              val |-> IF sg = 1 /\ Head(t) = "-" THEN 0 - mag ELSE mag,
              n |-> sp + sg + k]

\* sscanf(ptr, "%c,%d%n", &color, &duration, &n)  (main.c:247).
ScanEntry(s) ==
    IF s = <<>>
    THEN [ret |-> -1, color |-> NUL, duration |-> 0, n |-> 0]
    ELSE IF Len(s) < 2 \/ s[2] # ","
    THEN [ret |-> 1, color |-> s[1], duration |-> 0, n |-> 0]
    ELSE LET d == ScanInt(From(s, 2))
         IN  IF d.ok
             THEN [ret |-> 2, color |-> s[1], duration |-> d.val, n |-> 2 + d.n]
             ELSE [ret |-> 1, color |-> s[1], duration |-> 0, n |-> 0]

\* sscanf(t_ptr, "T,%d", &repeat_times)  (main.c:229); s starts at the 'T'.
ScanRepeat(s) ==
    IF Len(s) < 2 \/ s[1] # "T" \/ s[2] # ","
    THEN [ret |-> 0, val |-> 0]
    ELSE LET d == ScanInt(From(s, 2))
         IN  IF d.ok THEN [ret |-> 1, val |-> d.val] ELSE [ret |-> 0, val |-> 0]

\* The skip loop left out.
SkipSeparators_None(s, p) == p

\* The skip loop of main.c:297-299: offset of the first character of s at or
\* after p that is neither a comma nor a space.
RECURSIVE SkipSeparators(_, _)
SkipSeparators(s, p) ==
    IF p < Len(s) /\ s[p + 1] \in {",", " "} THEN SkipSeparators(s, p + 1) ELSE p

\* strcmp(a, b) == 0
StrEq(a, b) == a = b


\* ------------------------------------------------------------------ state
VARIABLES
    \* environment: the characters still to arrive on the UART
    uart_in,
    \* uart_receive_task
    u_pc,            \* "poll" | "put" (inside ring_buffer_put)
    uart_msg,        \* uart_msg[0 .. uart_msg_index-1]
    put_msg,         \* argument of the running ring_buffer_put
    put_i,           \* its loop index i
    debug_enabled,
    \* struct ring_buffer uart_buffer
    rb,
    \* dispatcher_task
    d_pc,
    msg,             \* msg[0 .. i-1] while in ring_buffer_get, then the string
    command_sequence,
    repeat_times,
    r,               \* pass index of the for loop
    ptr,             \* offset of ptr in command_sequence
    led_data,        \* [color, duration, n] of the entry being submitted
    command_count,
    sem_i,           \* i of the completion wait loop
    \* kernel objects
    fifo,            \* red_fifo, green_fifo, yellow_fifo
    command_queue,
    led_mutex,       \* owner, or "none"
    light_mutex,     \* owner, or "none"
    sequence_sem,
    \* light tasks
    w_pc,
    cmd_item,        \* result of k_fifo_peek_head
    item,            \* result of k_fifo_get on the own FIFO
    start_time,
    elapsed,         \* duration_us
    \* outputs and time
    leds,            \* [red, green]
    total_duration_us,
    now,             \* the cycle counter, in the unit of the durations
    halted,          \* an assert failed
    \* history (not program state)
    origin,          \* the messages the terminal sends, as [body, suffix, rep]
    next_id,         \* number of commands submitted so far
    cmds,            \* every command submitted, <<channel, duration>>, by id
    stored,          \* lines handed to ring_buffer_put, oldest first
    taken,           \* strings returned by ring_buffer_get
    submitted,       \* commands of the current message, as parsed
    ledgered,        \* channels appended to command_queue for the current message
    queued,          \* items put into a channel FIFO for the current message
    taken_signals,   \* completion signals taken for the current message
    started,         \* ids in the order their output section was entered
    finished         \* ids whose output section was left

uartVars == <<uart_in, u_pc, uart_msg, put_msg, put_i, debug_enabled, stored>>
dispVars == <<d_pc, msg, command_sequence, repeat_times, r, ptr, led_data,
              command_count, sem_i, next_id, cmds, taken, submitted, ledgered,
              queued, taken_signals>>
workVars == <<w_pc, cmd_item, item, start_time, elapsed, started, finished>>
kernVars == <<fifo, command_queue, led_mutex, light_mutex, sequence_sem>>
outVars  == <<leds, total_duration_us, now>>

vars == <<uartVars, dispVars, workVars, kernVars, outVars, rb, halted, origin>>

NoItem == [id |-> 0, duration |-> 0]
NoCmd == [id |-> 0, color |-> NUL]
NoEntry == [color |-> NUL, duration |-> 0, n |-> 0]

\* ------------------------------------------------------------ ring buffer
\* struct ring_buffer uart_buffer = {.head = 0, .tail = 0, .count = 0}
EmptyRing ==
    [buffer |-> [i \in 0..(MAX_MSG_LEN - 1) |-> NUL], head |-> 0, tail |-> 0,
     count |-> 0]

\* The iteration without the advance of tail when the buffer is full.
RingPutByte_NoDrop(b, c) ==
    [buffer |-> [b.buffer EXCEPT ![b.head] = c],
     head |-> (b.head + 1) % MAX_MSG_LEN,
     tail |-> b.tail,
     count |-> IF b.count + 1 > MAX_MSG_LEN THEN MAX_MSG_LEN ELSE b.count + 1]

\* One iteration of the loop of ring_buffer_put, storing character c.
RingPutByte(b, c) ==
    LET head  == (b.head + 1) % MAX_MSG_LEN
        count == b.count + 1
    IN  IF count > MAX_MSG_LEN
        THEN [buffer |-> [b.buffer EXCEPT ![b.head] = c], head |-> head,
              tail |-> (b.tail + 1) % MAX_MSG_LEN, count |-> MAX_MSG_LEN]
        ELSE [buffer |-> [b.buffer EXCEPT ![b.head] = c], head |-> head,
              tail |-> b.tail, count |-> count]

\* ring_buffer_put(rb, m): the loop over the characters of m.
RECURSIVE RingPut(_, _)
RingPut(b, m) ==
    IF m = <<>> THEN b ELSE RingPut(RingPutByte(b, Head(m)), Tail(m))

\* One iteration of the loop of ring_buffer_get: the buffer after the read.
RingGetByte(b) ==
    [b EXCEPT !.tail = (b.tail + 1) % MAX_MSG_LEN, !.count = b.count - 1]

\* ring_buffer_get(rb, msg) on a non-empty buffer: the loop, from the string
\* m read so far.  The result is the buffer and the string.
RECURSIVE RingGetLoop(_, _)
RingGetLoop(b, m) ==
    IF b.count > 0 /\ Len(m) < MAX_MSG_LEN - 1
    THEN RingGetLoop(RingGetByte(b), Append(m, b.buffer[b.tail]))
    ELSE [rb |-> b, msg |-> m]

\* ----------------------------------------------------------------- inputs
\* Decimal digits of n, with a minus sign when n < 0.
RECURSIVE IntStr(_)
IntStr(n) ==
    IF n < 0 THEN <<"-">> \o IntStr(0 - n)
    ELSE IF n < 10 THEN <<Digits[n + 1]>>
    ELSE IntStr(n \div 10) \o <<Digits[(n % 10) + 1]>>

\* The text "c,d" of each entry, joined by commas.
RECURSIVE BodyStr(_)
BodyStr(es) ==
    IF es = <<>> THEN <<>>
    ELSE <<es[1][1], ",">> \o IntStr(es[1][2])
         \o (IF Len(es) = 1 THEN <<>> ELSE <<",">> \o BodyStr(Tail(es)))

\* A message without repeat suffix, and one with the suffix "T,<rep>".
Plain(es) == [body |-> es, suffix |-> FALSE, rep |-> 1]
Repeated(es, n) == [body |-> es, suffix |-> TRUE, rep |-> n]

\* The line the terminal sends for message m, without its terminator.
Text(m) ==
    BodyStr(m.body) \o (IF m.suffix THEN <<"T", ",">> \o IntStr(m.rep) ELSE <<>>)

\* A message whose suffix is the marker T followed by the text junk, which
\* is not ",<integer>".
BadRepeat(es, junk) == [body |-> es, suffix |-> TRUE, rep |-> 1, junk |-> junk]

\* A message in which the entries es are followed by the text bad, which is
\* not "c,d", then by the entries rest, and by "T,<n>" when sfx holds.
BadEntry(es, bad, rest, sfx, n) ==
    [body |-> es, suffix |-> sfx, rep |-> n, bad |-> bad, rest |-> rest]

\* A line given by its characters.
Raw(s) == [body |-> <<>>, suffix |-> FALSE, rep |-> 1, raw |-> s]

\* The line the terminal sends for a message of any of the kinds above.
TextOf(m) ==
    IF "raw" \in DOMAIN m THEN m.raw
    ELSE IF "junk" \in DOMAIN m THEN BodyStr(m.body) \o <<"T">> \o m.junk
    ELSE IF "bad" \in DOMAIN m
    THEN BodyStr(m.body) \o (IF m.body = <<>> THEN <<>> ELSE <<",">>) \o m.bad
         \o (IF m.rest = <<>> THEN <<>> ELSE <<",">> \o BodyStr(m.rest))
         \o Text([body |-> <<>>, suffix |-> m.suffix, rep |-> m.rep])
    ELSE Text(m)

\* The messages of the specification Spec: each has been received whole by
\* uart_receive_task and stored by ring_buffer_put before the dispatcher polls.
Messages ==
    { Repeated(<<<<"R", 1>>, <<"G", 2>>>>, 2),
      Plain(<<<<"R", 1>>, <<"G", 1>>, <<"Y", 2>>>>),
      Plain(<<<<"R", 1>>, <<"X", 1>>, <<"G", 1>>>>) }

\* The state after main() has created the threads, with the characters in
\* still to arrive and the lines st already stored in ring buffer b.
InitState(in, b, st, org) ==
    /\ uart_in = in
    /\ u_pc = "poll"
    /\ uart_msg = <<>>
    /\ put_msg = <<>>
    /\ put_i = 0
    /\ debug_enabled = FALSE
    /\ rb = b
    /\ d_pc = "idle"
    /\ msg = <<>>
    /\ command_sequence = <<>>
    /\ repeat_times = 1
    /\ r = 0
    /\ ptr = 0
    /\ led_data = NoEntry
    /\ command_count = 0
    /\ sem_i = 0
    /\ fifo = [w \in Workers |-> <<>>]
    /\ command_queue = <<>>
    /\ led_mutex = "none"
    /\ light_mutex = "none"
    /\ sequence_sem = 0
    /\ w_pc = [w \in Workers |-> "lock"]
    /\ cmd_item = [w \in Workers |-> NoCmd]
    /\ item = [w \in Workers |-> NoItem]
    /\ start_time = [w \in Workers |-> 0]
    /\ elapsed = [w \in Workers |-> 0]
    /\ leds = [red |-> 0, green |-> 0]
    /\ total_duration_us = 0
    /\ now = 0
    /\ halted = FALSE
    /\ origin = org
    /\ next_id = 0
    /\ cmds = <<>>
    /\ stored = st
    /\ taken = <<>>
    /\ submitted = <<>>
    /\ ledgered = <<>>
    /\ queued = <<>>
    /\ taken_signals = 0
    /\ started = <<>>
    /\ finished = {}

Init ==
    \E m \in Messages :
        InitState(<<>>, RingPut(EmptyRing, Text(m)), <<Text(m)>>, <<m>>)

\* ------------------------------------------------------ uart_receive_task
\* The characters the asserts of main.c:155-156 reject.
BadChars ==
    {"a", "b", "c", "d", "e", "f", "g", "h", "i", "j", "k", "l", "m",
     "n", "o", "p", "q", "r", "s", "t", "u", "v", "w", "x", "y", "z",
     ".", "!", "@", "#", "$", "%", "^", "&", "*"}

\* The loop body with D,1 inverting debug_enabled instead of setting it.
U_Receive_Toggle ==
    /\ ~halted
    /\ u_pc = "poll"
    /\ uart_in # <<>>
    /\ LET rc   == Head(uart_in)
           acc  == Append(uart_msg, rc)
           line == SubSeq(acc, 1, Len(acc) - 1)
       IN  /\ uart_in' = Tail(uart_in)
           /\ IF rc \in BadChars
              THEN /\ halted' = TRUE
                   /\ UNCHANGED <<u_pc, uart_msg, put_msg, put_i, debug_enabled, stored>>
              ELSE /\ halted' = halted
                   /\ IF rc = LF \/ rc = CR \/ Len(acc) >= MAX_MSG_LEN
                      THEN IF StrEq(line, <<"D", ",", "1">>)
                           THEN /\ debug_enabled' = ~debug_enabled
                                /\ uart_msg' = <<>>
                                /\ UNCHANGED <<u_pc, put_msg, put_i, stored>>
                           ELSE IF StrEq(line, <<"D", ",", "0">>)
                           THEN /\ debug_enabled' = FALSE
                                /\ uart_msg' = <<>>
                                /\ UNCHANGED <<u_pc, put_msg, put_i, stored>>
                           ELSE /\ u_pc' = "put"
                                /\ put_msg' = line
                                /\ put_i' = 0
                                /\ stored' = Append(stored, line)
                                /\ uart_msg' = acc
                                /\ UNCHANGED debug_enabled
                      ELSE /\ uart_msg' = acc
                           /\ UNCHANGED <<u_pc, put_msg, put_i, debug_enabled, stored>>
    /\ UNCHANGED <<dispVars, workVars, kernVars, outVars, rb, origin>>

\* One pass of the loop body with a character available: the asserts, the
\* store into uart_msg and, at the end of a line, the D command or the start
\* of ring_buffer_put.
U_Receive ==
    /\ ~halted
    /\ u_pc = "poll"
    /\ uart_in # <<>>
    /\ LET rc   == Head(uart_in)
           acc  == Append(uart_msg, rc)
           line == SubSeq(acc, 1, Len(acc) - 1)
       IN  /\ uart_in' = Tail(uart_in)
           /\ IF rc \in BadChars
              THEN /\ halted' = TRUE
                   /\ UNCHANGED <<u_pc, uart_msg, put_msg, put_i, debug_enabled, stored>>
              ELSE /\ halted' = halted
                   /\ IF rc = LF \/ rc = CR \/ Len(acc) >= MAX_MSG_LEN
                      THEN IF StrEq(line, <<"D", ",", "1">>)
                           THEN /\ debug_enabled' = TRUE
                                /\ uart_msg' = <<>>
                                /\ UNCHANGED <<u_pc, put_msg, put_i, stored>>
                           ELSE IF StrEq(line, <<"D", ",", "0">>)
                           THEN /\ debug_enabled' = FALSE
                                /\ uart_msg' = <<>>
                                /\ UNCHANGED <<u_pc, put_msg, put_i, stored>>
                           ELSE /\ u_pc' = "put"
                                /\ put_msg' = line
                                /\ put_i' = 0
                                /\ stored' = Append(stored, line)
                                /\ uart_msg' = acc
                                /\ UNCHANGED debug_enabled
                      ELSE /\ uart_msg' = acc
                           /\ UNCHANGED <<u_pc, put_msg, put_i, debug_enabled, stored>>
    /\ UNCHANGED <<dispVars, workVars, kernVars, outVars, rb, origin>>

\* One iteration of the loop of ring_buffer_put, or its exit and the reset of
\* uart_msg_index (main.c:187).
U_Put ==
    /\ ~halted
    /\ u_pc = "put"
    /\ IF put_i < Len(put_msg)
       THEN /\ rb' = RingPutByte(rb, put_msg[put_i + 1])
            /\ put_i' = put_i + 1
            /\ UNCHANGED <<u_pc, uart_msg>>
       ELSE /\ u_pc' = "poll"
            /\ uart_msg' = <<>>
            /\ UNCHANGED <<rb, put_i>>
    /\ UNCHANGED <<uart_in, put_msg, debug_enabled, stored>>
    /\ UNCHANGED <<dispVars, workVars, kernVars, outVars, halted, origin>>

\* -------------------------------------------------------- dispatcher_task
\* ring_buffer_get is entered with a non-empty buffer (with count == 0 it
\* returns -1 and the task sleeps and polls again, which changes nothing).
D_Poll ==
    /\ ~halted
    /\ d_pc = "idle"
    /\ rb.count # 0
    /\ d_pc' = "get"
    /\ msg' = <<>>
    /\ UNCHANGED <<command_sequence, repeat_times, r, ptr, led_data, command_count,
                   sem_i, next_id, cmds, taken, submitted, ledgered, queued, taken_signals>>
    /\ UNCHANGED <<uartVars, workVars, kernVars, outVars, rb, halted, origin>>

\* One iteration of the loop of ring_buffer_get, or its exit followed by the
\* start of a sequence: total_duration_us and command_count are reset.
D_Get ==
    /\ ~halted
    /\ d_pc = "get"
    /\ IF rb.count > 0 /\ Len(msg) < MAX_MSG_LEN - 1
       THEN /\ msg' = Append(msg, rb.buffer[rb.tail])
            /\ rb' = RingGetByte(rb)
            /\ UNCHANGED <<d_pc, command_count, taken, submitted, ledgered, queued,
                           taken_signals, total_duration_us>>
       ELSE /\ d_pc' = "parse"
            /\ total_duration_us' = 0
            /\ command_count' = 0
            /\ taken' = Append(taken, msg)
            /\ submitted' = <<>>
            /\ ledgered' = <<>>
            /\ queued' = <<>>
            /\ taken_signals' = 0
            /\ UNCHANGED <<msg, rb>>
    /\ UNCHANGED <<command_sequence, repeat_times, r, ptr, led_data, sem_i, next_id, cmds>>
    /\ UNCHANGED <<uartVars, workVars, kernVars, leds, now, halted, origin>>

\* The assert with < in place of <=.
RepeatInRange_Exclusive(n) == n >= 1 /\ n < MAX_REPEAT

\* The condition of the assert of main.c:235.
RepeatInRange(n) == n >= 1 /\ n <= MAX_REPEAT

\* The parse without the assignment of main.c:231: after a failed sscanf
\* repeat_times keeps the value the previous message left.
D_Parse_KeepStale ==
    /\ ~halted
    /\ d_pc = "parse"
    /\ LET t == StrChr(msg, "T")
       IN  IF t # -1
           THEN LET sr == ScanRepeat(From(msg, t))
                    rt == IF sr.ret # 1 THEN repeat_times ELSE sr.val
                IN  /\ command_sequence' = SubSeq(msg, 1, t)
                    /\ repeat_times' = rt
                    /\ IF RepeatInRange(rt)
                       THEN d_pc' = "entry" /\ halted' = halted
                       ELSE d_pc' = d_pc /\ halted' = TRUE
           ELSE /\ command_sequence' = msg
                /\ repeat_times' = 1
                /\ d_pc' = "entry"
                /\ halted' = halted
    /\ r' = 0
    /\ ptr' = 0
    /\ UNCHANGED <<msg, led_data, command_count, sem_i, next_id, cmds, taken, submitted,
                   ledgered, queued, taken_signals>>
    /\ UNCHANGED <<uartVars, workVars, kernVars, outVars, rb, origin>>

\* The search for 'T', the copy of the body and the repeat count.  A failed
\* assert halts the system.
D_Parse ==
    /\ ~halted
    /\ d_pc = "parse"
    /\ LET t == StrChr(msg, "T")
       IN  IF t # -1
           THEN LET sr == ScanRepeat(From(msg, t))
                    rt == IF sr.ret # 1 THEN 1 ELSE sr.val
                IN  /\ command_sequence' = SubSeq(msg, 1, t)
                    /\ repeat_times' = rt
                    /\ IF RepeatInRange(rt)
                       THEN d_pc' = "entry" /\ halted' = halted
                       ELSE d_pc' = d_pc /\ halted' = TRUE
           ELSE /\ command_sequence' = msg
                /\ repeat_times' = 1
                /\ d_pc' = "entry"
                /\ halted' = halted
    /\ r' = 0
    /\ ptr' = 0
    /\ UNCHANGED <<msg, led_data, command_count, sem_i, next_id, cmds, taken, submitted,
                   ledgered, queued, taken_signals>>
    /\ UNCHANGED <<uartVars, workVars, kernVars, outVars, rb, origin>>

\* The loop heads with the break leaving both loops: a malformed entry ends
\* all remaining passes.
D_Entry_BreakAll ==
    /\ ~halted
    /\ d_pc = "entry"
    /\ IF r >= repeat_times
       THEN /\ d_pc' = "reset"
            /\ UNCHANGED <<r, ptr, led_data, led_mutex>>
       ELSE IF ptr >= Len(command_sequence)
       THEN /\ r' = r + 1
            /\ ptr' = 0
            /\ UNCHANGED <<d_pc, led_data, led_mutex>>
       ELSE LET e == ScanEntry(From(command_sequence, ptr))
            IN  IF e.ret # 2
                THEN /\ r' = repeat_times
                     /\ ptr' = 0
                     /\ UNCHANGED <<d_pc, led_data, led_mutex>>
                ELSE /\ led_mutex = "none"
                     /\ led_mutex' = "D"
                     /\ led_data' = [color |-> e.color, duration |-> e.duration,
                                     n |-> e.n]
                     /\ d_pc' = "put"
                     /\ UNCHANGED <<r, ptr>>
    /\ UNCHANGED <<msg, command_sequence, repeat_times, command_count, sem_i, next_id,
                   cmds, taken, submitted, ledgered, queued, taken_signals>>
    /\ UNCHANGED <<fifo, command_queue, light_mutex, sequence_sem>>
    /\ UNCHANGED <<uartVars, workVars, outVars, rb, halted, origin>>

\* The loop heads of main.c:243-250: the end of the passes, the end of one
\* pass, the break on a malformed entry, or a parsed entry, for which led_data
\* is allocated and led_mutex is taken.
D_Entry ==
    /\ ~halted
    /\ d_pc = "entry"
    /\ IF r >= repeat_times
       THEN /\ d_pc' = "reset"
            /\ UNCHANGED <<r, ptr, led_data, led_mutex>>
       ELSE IF ptr >= Len(command_sequence)
       THEN /\ r' = r + 1
            /\ ptr' = 0
            /\ UNCHANGED <<d_pc, led_data, led_mutex>>
       ELSE LET e == ScanEntry(From(command_sequence, ptr))
            IN  IF e.ret # 2
                THEN /\ r' = r + 1
                     /\ ptr' = 0
                     /\ UNCHANGED <<d_pc, led_data, led_mutex>>
                ELSE /\ led_mutex = "none"
                     /\ led_mutex' = "D"
                     /\ led_data' = [color |-> e.color, duration |-> e.duration,
                                     n |-> e.n]
                     /\ d_pc' = "put"
                     /\ UNCHANGED <<r, ptr>>
    /\ UNCHANGED <<msg, command_sequence, repeat_times, command_count, sem_i, next_id,
                   cmds, taken, submitted, ledgered, queued, taken_signals>>
    /\ UNCHANGED <<fifo, command_queue, light_mutex, sequence_sem>>
    /\ UNCHANGED <<uartVars, workVars, outVars, rb, halted, origin>>

\* k_condvar_signal left out: the pending task is not made ready.
Signalled_Lost(pc) == pc

\* The program counter of a light task after k_condvar_signal on its condvar:
\* a task pending in k_condvar_wait is made ready, any other is unaffected.
Signalled(pc) == IF pc = "wait" THEN "relock" ELSE pc

\* The switch with the default case falling into case 'Y': an unrecognised
\* channel is queued for the yellow task.
D_Put_Fallthrough ==
    /\ ~halted
    /\ d_pc = "put"
    /\ led_mutex = "D"
    /\ LET c == IF led_data.color \in Workers THEN led_data.color ELSE "Y"
       IN  /\ fifo' = [fifo EXCEPT ![c] =
                           Append(@, [id |-> next_id + 1,
                                      duration |-> led_data.duration])]
           /\ w_pc' = [w_pc EXCEPT ![c] = Signalled(@)]
           /\ queued' = Append(queued, c)
    /\ led_mutex' = "none"
    /\ d_pc' = "ledger"
    /\ UNCHANGED <<msg, command_sequence, repeat_times, r, ptr, led_data,
                   command_count, sem_i, next_id, cmds, taken, submitted, ledgered,
                   taken_signals>>
    /\ UNCHANGED <<cmd_item, item, start_time, elapsed, started, finished>>
    /\ UNCHANGED <<command_queue, light_mutex, sequence_sem>>
    /\ UNCHANGED <<uartVars, outVars, rb, halted, origin>>

\* The switch without case 'Y': a yellow command takes the default branch
\* and is not queued.
D_Put_NoYellow ==
    /\ ~halted
    /\ d_pc = "put"
    /\ led_mutex = "D"
    /\ LET c == led_data.color
       IN  IF c \in Workers \ {"Y"}
           THEN /\ fifo' = [fifo EXCEPT ![c] =
                               Append(@, [id |-> next_id + 1,
                                          duration |-> led_data.duration])]
                /\ w_pc' = [w_pc EXCEPT ![c] = Signalled(@)]
                /\ queued' = Append(queued, c)
           ELSE UNCHANGED <<fifo, w_pc, queued>>
    /\ led_mutex' = "none"
    /\ d_pc' = "ledger"
    /\ UNCHANGED <<msg, command_sequence, repeat_times, r, ptr, led_data,
                   command_count, sem_i, next_id, cmds, taken, submitted, ledgered,
                   taken_signals>>
    /\ UNCHANGED <<cmd_item, item, start_time, elapsed, started, finished>>
    /\ UNCHANGED <<command_queue, light_mutex, sequence_sem>>
    /\ UNCHANGED <<uartVars, outVars, rb, halted, origin>>

\* The switch of main.c:262-279 under led_mutex, and the unlock.
D_Put ==
    /\ ~halted
    /\ d_pc = "put"
    /\ led_mutex = "D"
    /\ LET c == led_data.color
       IN  IF c \in Workers
           THEN /\ fifo' = [fifo EXCEPT ![c] =
                               Append(@, [id |-> next_id + 1,
                                          duration |-> led_data.duration])]
                /\ w_pc' = [w_pc EXCEPT ![c] = Signalled(@)]
                /\ queued' = Append(queued, c)
           ELSE UNCHANGED <<fifo, w_pc, queued>>
    /\ led_mutex' = "none"
    /\ d_pc' = "ledger"
    /\ UNCHANGED <<msg, command_sequence, repeat_times, r, ptr, led_data,
                   command_count, sem_i, next_id, cmds, taken, submitted, ledgered,
                   taken_signals>>
    /\ UNCHANGED <<cmd_item, item, start_time, elapsed, started, finished>>
    /\ UNCHANGED <<command_queue, light_mutex, sequence_sem>>
    /\ UNCHANGED <<uartVars, outVars, rb, halted, origin>>

\* The append to command_queue, the count and the advance of ptr
\* (main.c:283-299).
D_Ledger ==
    /\ ~halted
    /\ d_pc = "ledger"
    /\ command_queue' = Append(command_queue,
                               [id |-> next_id + 1, color |-> led_data.color])
    /\ next_id' = next_id + 1
    /\ cmds' = Append(cmds, <<led_data.color, led_data.duration>>)
    /\ command_count' = command_count + 1
    /\ ptr' = SkipSeparators(command_sequence, ptr + led_data.n)
    /\ submitted' = Append(submitted, <<led_data.color, led_data.duration>>)
    /\ ledgered' = Append(ledgered, led_data.color)
    /\ d_pc' = "entry"
    /\ UNCHANGED <<msg, command_sequence, repeat_times, r, led_data, sem_i, taken,
                   queued, taken_signals>>
    /\ UNCHANGED <<fifo, led_mutex, light_mutex, sequence_sem>>
    /\ UNCHANGED <<uartVars, workVars, outVars, rb, halted, origin>>

\* k_sem_reset (main.c:304).
D_SemReset ==
    /\ ~halted
    /\ d_pc = "reset"
    /\ sequence_sem' = 0
    /\ sem_i' = 0
    /\ d_pc' = "wait"
    /\ UNCHANGED <<msg, command_sequence, repeat_times, r, ptr, led_data,
                   command_count, next_id, cmds, taken, submitted, ledgered, queued,
                   taken_signals>>
    /\ UNCHANGED <<fifo, command_queue, led_mutex, light_mutex>>
    /\ UNCHANGED <<uartVars, workVars, outVars, rb, halted, origin>>

\* One k_sem_take of the wait loop (main.c:307-309).
D_SemTake ==
    /\ ~halted
    /\ d_pc = "wait"
    /\ sem_i < command_count
    /\ sequence_sem > 0
    /\ sequence_sem' = sequence_sem - 1
    /\ sem_i' = sem_i + 1
    /\ taken_signals' = taken_signals + 1
    /\ UNCHANGED <<d_pc, msg, command_sequence, repeat_times, r, ptr, led_data,
                   command_count, next_id, cmds, taken, submitted, ledgered, queued>>
    /\ UNCHANGED <<fifo, command_queue, led_mutex, light_mutex>>
    /\ UNCHANGED <<uartVars, workVars, outVars, rb, halted, origin>>

\* The wait loop one take short: the dispatcher goes on when one completion
\* signal is still missing.
D_Report_Early ==
    /\ ~halted
    /\ d_pc = "wait"
    /\ sem_i >= command_count - 1
    /\ d_pc' = "idle"
    /\ UNCHANGED <<msg, command_sequence, repeat_times, r, ptr, led_data,
                   command_count, sem_i, next_id, cmds, taken, submitted, ledgered, queued,
                   taken_signals>>
    /\ UNCHANGED <<uartVars, workVars, kernVars, outVars, rb, halted, origin>>

\* The end of the wait loop and the report (main.c:311-321).
D_Report ==
    /\ ~halted
    /\ d_pc = "wait"
    /\ sem_i >= command_count
    /\ d_pc' = "idle"
    /\ UNCHANGED <<msg, command_sequence, repeat_times, r, ptr, led_data,
                   command_count, sem_i, next_id, cmds, taken, submitted, ledgered, queued,
                   taken_signals>>
    /\ UNCHANGED <<uartVars, workVars, kernVars, outVars, rb, halted, origin>>

\* ------------------------------------------------------------ light tasks
\* red_light_task, green_light_task and yellow_light_task are the same code
\* up to the channel letter, the FIFO, the condvar and the LEDs driven; w is
\* the channel letter.  Line numbers are those of red_light_task.

\* k_mutex_lock(&led_mutex) at the top of the loop (main.c:332).
W_Lock(w) ==
    /\ ~halted
    /\ w_pc[w] = "lock"
    /\ led_mutex = "none"
    /\ led_mutex' = w
    /\ w_pc' = [w_pc EXCEPT ![w] = "check"]
    /\ UNCHANGED <<cmd_item, item, start_time, elapsed, started, finished>>
    /\ UNCHANGED <<fifo, command_queue, light_mutex, sequence_sem>>
    /\ UNCHANGED <<uartVars, dispVars, outVars, rb, halted, origin>>

\* The wait without the test of the FIFO: the task pends whatever the FIFO
\* holds.
W_Check_AlwaysWait(w) ==
    /\ ~halted
    /\ w_pc[w] = "check"
    /\ led_mutex = w
    /\ led_mutex' = "none"
    /\ w_pc' = [w_pc EXCEPT ![w] = "wait"]
    /\ UNCHANGED <<cmd_item, item, start_time, elapsed, started, finished>>
    /\ UNCHANGED <<fifo, command_queue, light_mutex, sequence_sem>>
    /\ UNCHANGED <<uartVars, dispVars, outVars, rb, halted, origin>>

\* The test of the wait loop: k_condvar_wait releases led_mutex and pends, a
\* non-empty FIFO leaves the loop and unlocks (main.c:333-336).
W_Check(w) ==
    /\ ~halted
    /\ w_pc[w] = "check"
    /\ led_mutex = w
    /\ led_mutex' = "none"
    /\ w_pc' = [w_pc EXCEPT ![w] = IF fifo[w] = <<>> THEN "wait" ELSE "peek"]
    /\ UNCHANGED <<cmd_item, item, start_time, elapsed, started, finished>>
    /\ UNCHANGED <<fifo, command_queue, light_mutex, sequence_sem>>
    /\ UNCHANGED <<uartVars, dispVars, outVars, rb, halted, origin>>

\* k_condvar_wait returns: the signalled task takes led_mutex again.
W_Relock(w) ==
    /\ ~halted
    /\ w_pc[w] = "relock"
    /\ led_mutex = "none"
    /\ led_mutex' = w
    /\ w_pc' = [w_pc EXCEPT ![w] = "check"]
    /\ UNCHANGED <<cmd_item, item, start_time, elapsed, started, finished>>
    /\ UNCHANGED <<fifo, command_queue, light_mutex, sequence_sem>>
    /\ UNCHANGED <<uartVars, dispVars, outVars, rb, halted, origin>>

\* The test without the comparison of the channel letter.
IsMyTurn_AnyHead(w, q) == q # NoCmd

\* The test of main.c:342 on the peeked head q (NoCmd for NULL).
IsMyTurn(w, q) == q # NoCmd /\ q.color = w

\* k_fifo_peek_head and the test (main.c:341-342); when it is not the task's
\* turn it sleeps 1 ms and peeks again.
W_Peek(w) ==
    /\ ~halted
    /\ w_pc[w] = "peek"
    /\ LET q == IF command_queue = <<>> THEN NoCmd ELSE Head(command_queue)
       IN  /\ cmd_item' = [cmd_item EXCEPT ![w] = q]
           /\ w_pc' = [w_pc EXCEPT ![w] = IF IsMyTurn(w, q) THEN "claim" ELSE "peek"]
    /\ UNCHANGED <<item, start_time, elapsed, started, finished>>
    /\ UNCHANGED <<kernVars, uartVars, dispVars, outVars, rb, halted, origin>>

\* k_fifo_get(&command_queue, K_NO_WAIT) and k_free (main.c:344-346): the
\* head of the queue at this moment is removed, whatever it is.
W_Claim(w) ==
    /\ ~halted
    /\ w_pc[w] = "claim"
    /\ command_queue' = IF command_queue = <<>> THEN <<>> ELSE Tail(command_queue)
    /\ w_pc' = [w_pc EXCEPT ![w] = "olock"]
    /\ UNCHANGED <<cmd_item, item, start_time, elapsed, started, finished>>
    /\ UNCHANGED <<fifo, led_mutex, light_mutex, sequence_sem>>
    /\ UNCHANGED <<uartVars, dispVars, outVars, rb, halted, origin>>

\* k_mutex_lock(&led_mutex) before the own FIFO is read (main.c:355).
W_OwnLock(w) ==
    /\ ~halted
    /\ w_pc[w] = "olock"
    /\ led_mutex = "none"
    /\ led_mutex' = w
    /\ w_pc' = [w_pc EXCEPT ![w] = "oget"]
    /\ UNCHANGED <<cmd_item, item, start_time, elapsed, started, finished>>
    /\ UNCHANGED <<fifo, command_queue, light_mutex, sequence_sem>>
    /\ UNCHANGED <<uartVars, dispVars, outVars, rb, halted, origin>>

\* The own FIFO read from the wrong end: the newest item is taken.
W_OwnGet_Lifo(w) ==
    /\ ~halted
    /\ w_pc[w] = "oget"
    /\ led_mutex = w
    /\ led_mutex' = "none"
    /\ IF fifo[w] = <<>>
       THEN /\ item' = [item EXCEPT ![w] = NoItem]
            /\ w_pc' = [w_pc EXCEPT ![w] = "lock"]
            /\ UNCHANGED <<fifo, start_time>>
       ELSE /\ item' = [item EXCEPT ![w] = fifo[w][Len(fifo[w])]]
            /\ fifo' = [fifo EXCEPT ![w] = SubSeq(@, 1, Len(@) - 1)]
            /\ start_time' = [start_time EXCEPT ![w] = now]
            /\ w_pc' = [w_pc EXCEPT ![w] = "light"]
    /\ UNCHANGED <<cmd_item, elapsed, started, finished>>
    /\ UNCHANGED <<command_queue, light_mutex, sequence_sem>>
    /\ UNCHANGED <<uartVars, dispVars, outVars, rb, halted, origin>>

\* k_fifo_get on the own FIFO, the unlock, the NULL test and the first time
\* stamp (main.c:356-360).
W_OwnGet(w) ==
    /\ ~halted
    /\ w_pc[w] = "oget"
    /\ led_mutex = w
    /\ led_mutex' = "none"
    /\ IF fifo[w] = <<>>
       THEN /\ item' = [item EXCEPT ![w] = NoItem]
            /\ w_pc' = [w_pc EXCEPT ![w] = "lock"]
            /\ UNCHANGED <<fifo, start_time>>
       ELSE /\ item' = [item EXCEPT ![w] = Head(fifo[w])]
            /\ fifo' = [fifo EXCEPT ![w] = Tail(@)]
            /\ start_time' = [start_time EXCEPT ![w] = now]
            /\ w_pc' = [w_pc EXCEPT ![w] = "light"]
    /\ UNCHANGED <<cmd_item, elapsed, started, finished>>
    /\ UNCHANGED <<command_queue, light_mutex, sequence_sem>>
    /\ UNCHANGED <<uartVars, dispVars, outVars, rb, halted, origin>>

\* The gpio_pin_set_dt calls before the delay (main.c:364-365, 428-429,
\* 492-493).
LedsOn(w, l) ==
    CASE w = "R" -> [l EXCEPT !.green = 0, !.red = 1]
      [] w = "G" -> [l EXCEPT !.red = 0, !.green = 1]
      [] w = "Y" -> [l EXCEPT !.red = 1, !.green = 1]

\* The calls after the delay with the one of main.c:495 left out: the yellow
\* task switches off the green LED only.
LedsOff_YellowKeepsRed(w, l) ==
    CASE w = "R" -> [l EXCEPT !.red = 0]
      [] w = "G" -> [l EXCEPT !.green = 0]
      [] w = "Y" -> [l EXCEPT !.green = 0]

\* The gpio_pin_set_dt calls after the delay (main.c:367, 431, 495-496).
LedsOff(w, l) ==
    CASE w = "R" -> [l EXCEPT !.red = 0]
      [] w = "G" -> [l EXCEPT !.green = 0]
      [] w = "Y" -> [l EXCEPT !.red = 0, !.green = 0]

\* W_LightOn entered without waiting for light_mutex to be free.
W_LightOn_NoLock(w) ==
    /\ ~halted
    /\ w_pc[w] = "light"
    /\ light_mutex' = w
    /\ leds' = LedsOn(w, leds)
    /\ started' = Append(started, item[w].id)
    /\ w_pc' = [w_pc EXCEPT ![w] = "on"]
    /\ UNCHANGED <<cmd_item, item, start_time, elapsed, finished>>
    /\ UNCHANGED <<fifo, command_queue, led_mutex, sequence_sem>>
    /\ UNCHANGED <<uartVars, dispVars, total_duration_us, now, rb, halted, origin>>

\* k_mutex_lock(&light_mutex) and the LEDs switched on (main.c:362-365).
W_LightOn(w) ==
    /\ ~halted
    /\ w_pc[w] = "light"
    /\ light_mutex = "none"
    /\ light_mutex' = w
    /\ leds' = LedsOn(w, leds)
    /\ started' = Append(started, item[w].id)
    /\ w_pc' = [w_pc EXCEPT ![w] = "on"]
    /\ UNCHANGED <<cmd_item, item, start_time, elapsed, finished>>
    /\ UNCHANGED <<fifo, command_queue, led_mutex, sequence_sem>>
    /\ UNCHANGED <<uartVars, dispVars, total_duration_us, now, rb, halted, origin>>

\* The delay ends: the LEDs are switched off, light_mutex is released and the
\* elapsed time is measured (main.c:366-374).  Only the delay takes time.
\* The time stamps are uint32_t; the sums of the model stay far below 2^32.
W_LightOff(w) ==
    /\ ~halted
    /\ w_pc[w] = "on"
    /\ light_mutex = w
    /\ now' = now + item[w].duration
    /\ leds' = LedsOff(w, leds)
    /\ light_mutex' = "none"
    /\ elapsed' = [elapsed EXCEPT ![w] = now' - start_time[w]]
    /\ finished' = finished \cup {item[w].id}
    /\ w_pc' = [w_pc EXCEPT ![w] = "add"]
    /\ UNCHANGED <<cmd_item, item, start_time, started>>
    /\ UNCHANGED <<fifo, command_queue, led_mutex, sequence_sem>>
    /\ UNCHANGED <<uartVars, dispVars, total_duration_us, rb, halted, origin>>

\* total_duration_us += duration_us under total_duration_mutex
\* (main.c:377-379).
W_Add(w) ==
    /\ ~halted
    /\ w_pc[w] = "add"
    /\ total_duration_us' = total_duration_us + elapsed[w]
    /\ w_pc' = [w_pc EXCEPT ![w] = "give"]
    /\ UNCHANGED <<cmd_item, item, start_time, elapsed, started, finished>>
    /\ UNCHANGED <<kernVars, uartVars, dispVars, leds, now, rb, halted, origin>>

\* k_sem_give and k_free (main.c:385-387).
W_Give(w) ==
    /\ ~halted
    /\ w_pc[w] = "give"
    /\ sequence_sem' = sequence_sem + 1
    /\ w_pc' = [w_pc EXCEPT ![w] = "lock"]
    /\ UNCHANGED <<cmd_item, item, start_time, elapsed, started, finished>>
    /\ UNCHANGED <<fifo, command_queue, led_mutex, light_mutex>>
    /\ UNCHANGED <<uartVars, dispVars, outVars, rb, halted, origin>>

\* ---------------------------------------------------------- specification
Next ==
    \/ D_Poll
    \/ D_Get
    \/ D_Parse
    \/ D_Entry
    \/ D_Put
    \/ D_Ledger
    \/ D_SemReset
    \/ D_SemTake
    \/ D_Report
    \/ \E w \in Workers : W_Lock(w)
    \/ \E w \in Workers : W_Check(w)
    \/ \E w \in Workers : W_Relock(w)
    \/ \E w \in Workers : W_Peek(w)
    \/ \E w \in Workers : W_Claim(w)
    \/ \E w \in Workers : W_OwnLock(w)
    \/ \E w \in Workers : W_OwnGet(w)
    \/ \E w \in Workers : W_LightOn(w)
    \/ \E w \in Workers : W_LightOff(w)
    \/ \E w \in Workers : W_Add(w)
    \/ \E w \in Workers : W_Give(w)

Spec == Init /\ [][Next]_vars

\* The same threads with shorter messages and under the scheduling of the
\* kernel.  The threads have equal priority and each of them sleeps or pends
\* again and again, so a thread that is ready to run does run;
\* k_mutex_unlock hands the mutex to the thread that has waited longest, so
\* a thread pending on a mutex that is released again and again obtains it.
\* Both are strong fairness of the steps of each thread.
Dispatcher ==
    \/ D_Poll
    \/ D_Get
    \/ D_Parse
    \/ D_Entry
    \/ D_Put
    \/ D_Ledger
    \/ D_SemReset
    \/ D_SemTake
    \/ D_Report

LightTask(w) ==
    \/ W_Lock(w)
    \/ W_Check(w)
    \/ W_Relock(w)
    \/ W_Peek(w)
    \/ W_Claim(w)
    \/ W_OwnLock(w)
    \/ W_OwnGet(w)
    \/ W_LightOn(w)
    \/ W_LightOff(w)
    \/ W_Add(w)
    \/ W_Give(w)

Fairness ==
    /\ SF_vars(Dispatcher)
    /\ \A w \in Workers : SF_vars(LightTask(w))

LiveMessages ==
    { Repeated(<<<<"R", 1>>>>, 2),
      Plain(<<<<"R", 1>>, <<"G", 2>>>>),
      Plain(<<<<"G", 1>>, <<"X", 1>>, <<"Y", 1>>>>) }

InitLive ==
    \E m \in LiveMessages :
        InitState(<<>>, RingPut(EmptyRing, Text(m)), <<Text(m)>>, <<m>>)

SpecLive == InitLive /\ [][Next]_vars /\ Fairness

\* The same threads together with uart_receive_task, which receives the
\* characters of a stream one by one while the others run.
Streams ==
    { <<Plain(<<<<"G", 1>>>>), Plain(<<<<"Y", 1>>>>)>>,
      <<Repeated(<<<<"R", 1>>>>, 2), Plain(<<<<"G", 1>>>>)>> }

\* The characters of the messages ms, each followed by a line feed.
RECURSIVE Wire(_)
Wire(ms) ==
    IF ms = <<>> THEN <<>> ELSE TextOf(Head(ms)) \o <<LF>> \o Wire(Tail(ms))

InitUart == \E ms \in Streams : InitState(Wire(ms), EmptyRing, <<>>, ms)

NextUart == U_Receive \/ U_Put \/ Next

SpecUart == InitUart /\ [][NextUart]_vars

\* uart_receive_task and dispatcher_task without the light tasks: what the
\* dispatcher reads and parses from the lines of a stream.  No completion
\* signal arrives, so the dispatcher goes on to the next read only after a
\* message without commands.
DebugOn == Raw(<<"D", ",", "1">>)
DebugOff == Raw(<<"D", ",", "0">>)
BadSuffixes == {<<>>, <<",">>, <<",", "A">>, <<"A">>, <<" ", "2">>}

FeedStreams ==
    { <<Repeated(<<>>, 2), BadRepeat(<<<<"R", 1>>>>, j)>> : j \in BadSuffixes }
        \cup { <<DebugOff, DebugOn, DebugOn, DebugOff, Plain(<<<<"G", 1>>>>)>> }

InitFeed == \E ms \in FeedStreams : InitState(Wire(ms), EmptyRing, <<>>, ms)

NextFeed ==
    \/ U_Receive
    \/ U_Put
    \/ D_Poll
    \/ D_Get
    \/ D_Parse
    \/ D_Entry
    \/ D_Put
    \/ D_Ledger
    \/ D_SemReset
    \/ D_Report

SpecFeed == InitFeed /\ [][NextFeed]_vars

\* The same two tasks when a stream arrives as one burst: all its lines are
\* received and stored within one sleep of the dispatcher (k_msleep(10),
\* main.c:323), which polls once the last one is stored.  LongLine has
\* MAX_MSG_LEN + 3 characters, more than uart_msg and the ring buffer hold.
LongLine ==
    [k \in 1..(MAX_MSG_LEN + 3) |-> IF k % 4 = 1 THEN "R"
                                    ELSE IF k % 4 = 3 THEN "1" ELSE ","]

FrameStreams ==
    { <<Raw(LongLine), Plain(<<<<"Y", 1>>>>)>>,
      <<Raw(LongLine), Plain(<<<<"Y", 1>>>>), Plain(<<<<"G", 1>>>>)>>,
      <<Plain(<<<<"G", 1>>>>), Plain(<<<<"Y", 1>>>>)>>,
      <<Plain(<<<<"R", 1>>, <<"G", 2>>>>)>> }

InitFrame == \E ms \in FrameStreams : InitState(Wire(ms), EmptyRing, <<>>, ms)

D_PollAfterBurst == uart_in = <<>> /\ u_pc = "poll" /\ D_Poll

NextFrame ==
    \/ U_Receive
    \/ U_Put
    \/ D_PollAfterBurst
    \/ D_Get
    \/ D_Parse
    \/ D_Entry
    \/ D_Put
    \/ D_Ledger
    \/ D_SemReset
    \/ D_Report

SpecFrame == InitFrame /\ [][NextFrame]_vars

\* The ring buffer alone: whole calls of ring_buffer_put and ring_buffer_get
\* in any order, with up to MaxPuts lines of 1, 5 and MAX_MSG_LEN - 1
\* characters.
MaxPuts == 4

RingLines ==
    { <<"A">>,
      <<"B", "C", "D", "E", "F">>,
      [k \in 1..(MAX_MSG_LEN - 1) |-> Digits[(k % 10) + 1]] }

InitRing == InitState(<<>>, EmptyRing, <<>>, <<>>)

RB_Put ==
    /\ Len(stored) < MaxPuts
    /\ \E m \in RingLines :
          /\ rb' = RingPut(rb, m)
          /\ stored' = Append(stored, m)
    /\ UNCHANGED <<uart_in, u_pc, uart_msg, put_msg, put_i, debug_enabled>>
    /\ UNCHANGED <<dispVars, workVars, kernVars, outVars, halted, origin>>

RB_Get ==
    /\ rb.count # 0
    /\ LET g == RingGetLoop(rb, <<>>)
       IN  /\ rb' = g.rb
           /\ msg' = g.msg
           /\ taken' = Append(taken, g.msg)
    /\ UNCHANGED <<d_pc, command_sequence, repeat_times, r, ptr, led_data,
                   command_count, sem_i, next_id, cmds, submitted, ledgered, queued,
                   taken_signals>>
    /\ UNCHANGED <<uartVars, workVars, kernVars, outVars, halted, origin>>

NextRing == RB_Put \/ RB_Get

SpecRing == InitRing /\ [][NextRing]_vars


\* The dispatcher alone, from the moment a message is in the ring buffer to
\* the moment all its commands are submitted, for every message made of up to
\* MaxEntries entries and a repeat suffix, together with the repeat counts at
\* and around the limits of the assert.
Channels == {"R", "G", "Y", "X"}
Durations == {1, 20}
Entries == Channels \X Durations
Bodies == UNION {[1..k -> Entries] : k \in 1..MaxEntries}
EdgeReps == {0 - 1, 0, MAX_REPEAT, MAX_REPEAT + 1}

\* Texts that are not an entry "c,d", the entries before and after them, and
\* the messages made of these that fit into msg.
BadTexts ==
    { <<"G">>, <<"G", ",">>, <<"G", ",", "A">>, <<"G", "G", ",", "5">>,
      <<"G", " ", "5">>, <<"5">> }
GoodBefore ==
    { <<>>, <<<<"R", 1>>>>, <<<<"R", 1>>, <<"G", 2>>>>, <<<<"X", 1>>, <<"Y", 1>>>> }
GoodAfter == { <<>>, <<<<"Y", 1>>>> }

BadEntryInputs ==
    { m \in { BadEntry(es, bad, rest, FALSE, 1) :
                  es \in GoodBefore, bad \in BadTexts, rest \in GoodAfter }
             \cup UNION { { BadEntry(es, bad, rest, TRUE, n) :
                              es \in GoodBefore, bad \in BadTexts, rest \in GoodAfter }
                          : n \in 1..MaxRep } :
        Len(TextOf(m)) < MAX_MSG_LEN }

ParseInputs ==
    {Plain(b) : b \in Bodies}
        \cup {Repeated(b, n) : b \in Bodies, n \in 1..MaxRep}
        \cup {Repeated(<<e>>, n) : e \in Entries, n \in EdgeReps}
        \cup {Repeated(<<<<"R", 100>>, <<"G", 200>>>>, 2)}
        \cup BadEntryInputs

InitParse ==
    \E m \in ParseInputs :
        InitState(<<>>, RingPut(EmptyRing, TextOf(m)), <<TextOf(m)>>, <<m>>)

NextParse ==
    \/ D_Poll
    \/ D_Get
    \/ D_Parse
    \/ D_Entry
    \/ D_Put
    \/ D_Ledger
    \/ D_SemReset

SpecParse == InitParse /\ [][NextParse]_vars

\* ----------------------------------------------------------------- claims
\* Whether command id names one of the three channels.
Recognised(id) == cmds[id][1] \in Workers

\* The light tasks that hold an item they have not yet signalled as done.
Busy == {w \in Workers : w_pc[w] \in {"light", "on", "add", "give"}}

\* Commands of recognised channels that are queued or in execution.
Outstanding ==
    Len(fifo["R"]) + Len(fifo["G"]) + Len(fifo["Y"]) + Cardinality(Busy)

\* Every command of the current message names R, G or Y.
AllRecognised == \A k \in 1..Len(submitted) : submitted[k][1] \in Workers

\* C1: turn order across channels.  While a light task drives the output for
\* a command, every command of a recognised channel that was submitted before
\* it has already left its output section.
C1_TurnOrder ==
    \A w \in Workers :
        w_pc[w] = "on" =>
            \A j \in 1..(item[w].id - 1) : Recognised(j) => j \in finished

\* C2: completion accounting.  While the dispatcher waits for a message
\* whose commands all name R, G or Y, the signals still in the semaphore plus
\* those still to be given cover the takes that are left, so the wait can
\* finish.
C2_CompletionWaitFinishes ==
    (d_pc = "wait" /\ AllRecognised) =>
        sequence_sem + Outstanding >= command_count - sem_i

\* C3: mutual exclusion on the output.  At most one light task is between
\* switching its LEDs on and switching them off.
C3_OutputMutex == Cardinality({w \in Workers : w_pc[w] = "on"}) <= 1

\* C3 witness: one task drives the output while another waits for light_mutex.
C3_Contended ==
    \E w, v \in Workers : w # v /\ w_pc[w] = "on" /\ w_pc[v] = "light"

\* The ids of the items in the FIFO of channel w.
FifoIds(w) == {fifo[w][k].id : k \in 1..Len(fifo[w])}

\* The ids of the entries of command_queue.
LedgerIds == {command_queue[k].id : k \in 1..Len(command_queue)}

\* The ids of the commands submitted so far that name no channel.
UnrecognisedIds == {id \in 1..Len(cmds) : ~Recognised(id)}

\* C4 as stated: submit is atomic.  A light task that looks at its FIFO under
\* led_mutex, or has seen it non-empty and polls the ledger, finds no item
\* whose ledger entry has not been appended yet.
C4_SubmitAtomic ==
    \A w \in Workers :
        w_pc[w] \in {"check", "peek", "oget"} => \A id \in FifoIds(w) : id <= next_id

\* C4 amended: the FIFO append and the condvar signal are one step under
\* led_mutex and the ledger append follows it.  An entry of command_queue for
\* R, G or Y always has its item in the channel FIFO, and a task pending on
\* its condvar never has an item in its FIFO.
C4_LedgerAfterQueue ==
    /\ \A k \in 1..Len(command_queue) :
           command_queue[k].color \in Workers =>
               command_queue[k].id \in FifoIds(command_queue[k].color)
    /\ \A w \in Workers : w_pc[w] = "wait" => fifo[w] = <<>>

\* C4 witness: a task has seen its FIFO non-empty and polls the ledger while
\* the entry of the item it saw is not appended yet.
C4_SeenBeforeLedger ==
    \E w \in Workers :
        /\ w_pc[w] = "peek"
        /\ d_pc = "ledger"
        /\ next_id + 1 \in FifoIds(w)

\* C5: an unrecognised channel stalls the engine.  Its command is counted and
\* has a ledger entry but no FIFO item; the entry is never removed; no command
\* submitted after it is executed; the completion wait of its message never
\* ends.
C5_UnrecognisedStalls ==
    /\ d_pc \in {"entry", "reset", "wait"} =>
           /\ command_count = Len(ledgered)
           /\ ledgered = [k \in 1..Len(submitted) |-> submitted[k][1]]
           /\ queued = SelectSeq(ledgered, LAMBDA c : c \in Workers)
    /\ \A u \in UnrecognisedIds :
           /\ u \in LedgerIds
           /\ \A w \in Workers : u \notin FifoIds(w) /\ item[w].id # u
           /\ \A k \in 1..Len(started) : started[k] < u
    /\ ~AllRecognised =>
           /\ d_pc \in {"entry", "put", "ledger", "reset", "wait"}
           /\ d_pc = "wait" => sem_i < command_count

\* C5 witness: the unrecognised entry is the ledger head, the command before
\* it is done and signalled, the command after it is queued and its task polls.
C5_Stalled ==
    /\ d_pc = "wait"
    /\ sem_i = 1
    /\ command_queue # <<>>
    /\ Head(command_queue).color \notin Workers
    /\ \E w \in Workers : w_pc[w] = "peek" /\ fifo[w] # <<>>

\* C6: ledger/queue count invariant.  Once a message is submitted, the
\* entries appended to command_queue, the items appended to the channel FIFOs
\* and command_count are the same number.
C6_CountsAgree ==
    d_pc \in {"reset", "wait"} =>
        Len(ledgered) = Len(queued) /\ Len(queued) = command_count

\* C7: one message per read.  Every string returned by ring_buffer_get is one
\* of the lines stored by ring_buffer_put.
C7_OneMessagePerRead ==
    \A k \in 1..Len(taken) : \E j \in 1..Len(stored) : taken[k] = stored[j]

\* C8: tryClaimTurn.  command_queue changes only by an append of the
\* dispatcher or by a light task removing the head it peeked, which carries
\* its own channel; after every step a task about to remove the head still
\* finds the entry it peeked there.
C8_ClaimStep ==
    /\ \A w \in Workers :
           w_pc'[w] = "claim" =>
               /\ command_queue' # <<>>
               /\ Head(command_queue') = cmd_item'[w]
               /\ cmd_item'[w].color = w
    /\ command_queue' # command_queue =>
           \/ /\ d_pc = "ledger"
              /\ d_pc' = "entry"
              /\ Len(command_queue') = Len(command_queue) + 1
              /\ SubSeq(command_queue', 1, Len(command_queue)) = command_queue
           \/ \E w \in Workers :
                  /\ w_pc[w] = "claim"
                  /\ w_pc'[w] = "olock"
                  /\ command_queue # <<>>
                  /\ Head(command_queue) = cmd_item[w]
                  /\ cmd_item[w].color = w
                  /\ command_queue' = Tail(command_queue)

C8_ClaimTurn == [][C8_ClaimStep]_vars

\* C8 witness: a task is between its peek and its get, another task has
\* polled the same head and left it, and more entries follow the head.
C8_PeekedTwice ==
    \E w, v \in Workers :
        /\ w # v
        /\ w_pc[w] = "claim"
        /\ w_pc[v] = "peek"
        /\ cmd_item[v] = cmd_item[w]
        /\ Len(command_queue) >= 2

\* The sequence es repeated n times.
RECURSIVE Times(_, _)
Times(es, n) == IF n <= 0 THEN <<>> ELSE es \o Times(es, n - 1)

\* The dispatcher has read the whole text of the message the terminal sent.
ReadWhole == d_pc \notin {"idle", "get"} /\ msg = Text(origin[1])

\* The durations of the commands cs that name channel w, in order.
DurationsOf(cs, w) ==
    LET mine == SelectSeq(cs, LAMBDA c : c[1] = w)
    IN  [k \in 1..Len(mine) |-> mine[k][2]]

\* C9: repeat expansion.  When a message of k entries and repeat count r
\* (1 without suffix) is submitted, the commands are the body r times over,
\* the ledger holds their channels in that order and each channel FIFO holds
\* the durations of its commands in that order.
C9_RepeatExpansion ==
    (ReadWhole /\ d_pc \in {"reset", "wait"}) =>
        LET want == Times(origin[1].body, origin[1].rep)
        IN  /\ submitted = want
            /\ command_count = origin[1].rep * Len(origin[1].body)
            /\ [k \in 1..Len(command_queue) |-> command_queue[k].color]
                   = [k \in 1..Len(want) |-> want[k][1]]
            /\ \A w \in Workers :
                   [k \in 1..Len(fifo[w]) |-> fifo[w][k].duration]
                       = DurationsOf(want, w)

\* C9 witness: R,100,G,200T,2 is submitted as R:100, G:200, R:100, G:200.
C9_Example ==
    /\ d_pc = "wait"
    /\ msg = <<"R", ",", "1", "0", "0", ",", "G", ",", "2", "0", "0", "T", ",", "2">>
    /\ submitted = <<<<"R", 100>>, <<"G", 200>>, <<"R", 100>>, <<"G", 200>>>>
    /\ ledgered = <<"R", "G", "R", "G">>

\* C10: repeat range check.  For a message with the suffix T,n the engine
\* halts iff n is outside 1..100, it halts with nothing submitted, and a
\* message that is accepted is expanded n times.
C10_RepeatRange ==
    (ReadWhole /\ origin[1].suffix /\ (d_pc # "parse" \/ halted)) =>
        /\ halted <=> ~(1 <= origin[1].rep /\ origin[1].rep <= 100)
        /\ halted =>
               /\ command_queue = <<>>
               /\ \A w \in Workers : fifo[w] = <<>>
               /\ next_id = 0
        /\ d_pc \in {"reset", "wait"} =>
               Len(submitted) = origin[1].rep * Len(origin[1].body)

\* C10 witness: the engine halted on the suffix T,101.
C10_Rejected == halted /\ origin[1].suffix /\ origin[1].rep = 101


\* Whether sequence a is the beginning of sequence b.
IsPrefix(a, b) == Len(a) <= Len(b) /\ a = SubSeq(b, 1, Len(a))

\* C11: malformed repeat suffix.  When the dispatcher has read a message
\* whose marker T is followed by text that is not ",<integer>", the system is
\* not halted, repeat_times is 1 whatever the previous message left in it,
\* and the commands submitted are the entries before the T, once: never more
\* than them, and exactly them when the passes are over.
C11_MalformedRepeat ==
    \A k \in 1..Len(origin) :
        ("junk" \in DOMAIN origin[k] /\ d_pc \notin {"idle", "get"}
            /\ msg = TextOf(origin[k]))
        => /\ ~halted
           /\ d_pc # "parse"
              => /\ repeat_times = 1
                 /\ IsPrefix(submitted, origin[k].body)
                 /\ d_pc \in {"reset", "wait"} => submitted = origin[k].body

\* The message "T,2" was read and run, leaving repeat_times at 2, and the
\* message with the malformed suffix read after it has been run once.
C11_StaleIgnored ==
    /\ Len(origin) = 2
    /\ "junk" \in DOMAIN origin[2]
    /\ origin[1].rep = 2
    /\ taken = <<TextOf(origin[1]), TextOf(origin[2])>>
    /\ d_pc = "wait"
    /\ msg = TextOf(origin[2])
    /\ submitted = origin[2].body
    /\ submitted # <<>>


\* C12: malformed entry.  When the dispatcher has read a message whose first
\* entries are well formed and are followed by text that is not an entry, the
\* system is not halted, the commands submitted are those first entries, pass
\* after pass, and none of the entries after the malformed text; when the
\* passes are over command_count is the repeat count times their number.
C12_MalformedEntry ==
    LET m == origin[1]
    IN  ("bad" \in DOMAIN m /\ d_pc \notin {"idle", "get"} /\ msg = TextOf(m))
        => /\ ~halted
           /\ d_pc # "parse"
              => /\ IsPrefix(submitted, Times(m.body, m.rep))
                 /\ command_count = Len(submitted)
                 /\ d_pc \in {"reset", "wait"}
                    => /\ submitted = Times(m.body, m.rep)
                       /\ command_count = m.rep * Len(m.body)

\* Two passes over a message with entries before and after the malformed
\* text have ended.
C12_Example ==
    LET m == origin[1]
    IN  /\ "bad" \in DOMAIN m
        /\ m.body # <<>>
        /\ m.rest # <<>>
        /\ m.rep = 2
        /\ msg = TextOf(m)
        /\ d_pc = "wait"
        /\ command_count = 2 * Len(m.body)


\* The characters of text s.
Chars(s) == {s[i] : i \in 1..Len(s)}

\* Line k of the stream comes after a line of MAX_MSG_LEN characters or more,
\* and its first character occurs nowhere else in the stream.
AfterOverflow(k) ==
    /\ \E j \in 1..(k - 1) : Len(TextOf(origin[j])) >= MAX_MSG_LEN
    /\ \A j \in 1..Len(origin) :
          j # k => Head(TextOf(origin[k])) \notin Chars(TextOf(origin[j]))
    /\ Head(TextOf(origin[k])) \notin Chars(Tail(TextOf(origin[k])))

\* C13: framing overflow.  A line sent after an over-long line is extracted
\* from its own first character on and with exactly its own characters: the
\* read that returns its first character returns that line.
C13_FramingOverflow ==
    \A k \in 1..Len(origin) :
        AfterOverflow(k)
        => \A i \in 1..Len(taken) :
               Head(TextOf(origin[k])) \in Chars(taken[i])
               => taken[i] = TextOf(origin[k])


\* The unread bytes of ring buffer b, oldest first.
Unread(b) == [i \in 1..b.count |-> b.buffer[(b.tail + i - 1) % MAX_MSG_LEN]]

\* The last n elements of sequence s.
Last(s, n) == SubSeq(s, Len(s) - n + 1, Len(s))

Min(a, b) == IF a < b THEN a ELSE b

\* The concatenation of the sequences of ss.
RECURSIVE Flatten(_)
Flatten(ss) == IF ss = <<>> THEN <<>> ELSE Head(ss) \o Flatten(Tail(ss))

\* count, head and tail are in range and count is the distance from tail to
\* head, a full buffer having head = tail.
RingOk(b) ==
    /\ b.count \in 0..MAX_MSG_LEN
    /\ b.head \in 0..(MAX_MSG_LEN - 1)
    /\ b.tail \in 0..(MAX_MSG_LEN - 1)
    /\ (b.tail + b.count) % MAX_MSG_LEN = b.head

\* C14: ring buffer invariant.  Every completed call leaves count, head and
\* tail in range and consistent; ring_buffer_put of m leaves as unread bytes
\* the most recent MAX_MSG_LEN of the bytes unread before followed by m, one
\* oldest byte being dropped per byte written into a full buffer; and
\* ring_buffer_get returns the oldest unread bytes, up to MAX_MSG_LEN - 1,
\* and leaves the others unread.
C14_RingStep ==
    /\ RingOk(rb')
    /\ stored' # stored
       => LET m == stored'[Len(stored')]
          IN  /\ rb'.count = Min(MAX_MSG_LEN, rb.count + Len(m))
              /\ Unread(rb') = Last(Unread(rb) \o m, rb'.count)
    /\ taken' # taken
       => LET g == taken'[Len(taken')]
          IN  /\ g = SubSeq(Unread(rb), 1, Min(rb.count, MAX_MSG_LEN - 1))
              /\ Unread(rb') = SubSeq(Unread(rb), Len(g) + 1, rb.count)

C14_RingInvariant == [][C14_RingStep]_vars

\* The buffer is full after a read and after more bytes were put than the
\* reads and the buffer account for: oldest bytes have been dropped.
C14_Overwritten ==
    /\ taken # <<>>
    /\ rb.count = MAX_MSG_LEN
    /\ Len(Flatten(stored)) > Len(Flatten(taken)) + MAX_MSG_LEN


\* The number of lines of the stream whose terminator has been received.
LinesDone ==
    LET w == Wire(origin)
    IN  Cardinality({i \in 1..(Len(w) - Len(uart_in)) : w[i] = LF})

\* The value the D lines among the first n lines of the stream ask for.
RECURSIVE DebugAfter(_)
DebugAfter(n) ==
    IF n = 0 THEN FALSE
    ELSE IF origin[n] = DebugOn THEN TRUE
    ELSE IF origin[n] = DebugOff THEN FALSE
    ELSE DebugAfter(n - 1)

\* The texts of the first n lines of the stream that are not D lines.
RECURSIVE OtherLines(_)
OtherLines(n) ==
    IF n = 0 THEN <<>>
    ELSE IF origin[n] \in {DebugOn, DebugOff} THEN OtherLines(n - 1)
    ELSE Append(OtherLines(n - 1), TextOf(origin[n]))

\* C15: debug control.  debug_enabled is what the last D line received asks
\* for, whatever it was before; the lines handed to ring_buffer_put are the
\* other lines; and when no other line contains the letter D, no D is in the
\* ring buffer, in a string read by the dispatcher, in a command or in
\* command_queue.
C15_DebugControl ==
    /\ debug_enabled = DebugAfter(LinesDone)
    /\ stored = OtherLines(LinesDone)
    /\ (\A k \in 1..Len(origin) :
            origin[k] \notin {DebugOn, DebugOff} => "D" \notin Chars(TextOf(origin[k])))
       => /\ "D" \notin Chars(Unread(rb))
          /\ \A i \in 1..Len(taken) : "D" \notin Chars(taken[i])
          /\ \A id \in 1..Len(cmds) : cmds[id][1] # "D"
          /\ \A i \in 1..Len(command_queue) : command_queue[i].color # "D"

\* D,1 has been received a second time in a row: debug_enabled is still set.
C15_TwiceEnabled ==
    /\ Len(origin) >= 3
    /\ origin[2] = DebugOn
    /\ origin[3] = DebugOn
    /\ LinesDone = 3
    /\ debug_enabled


\* Nothing is queued, claimed or in execution, no light task holds
\* light_mutex and no completion signal is pending.
Quiet ==
    /\ \A w \in Workers : fifo[w] = <<>>
    /\ command_queue = <<>>
    /\ light_mutex = "none"
    /\ \A w \in Workers : w_pc[w] \in {"lock", "check", "wait", "relock"}
    /\ sequence_sem = 0

\* The commands of the current message whose output section is over.
DoneOfMessage ==
    {id \in (next_id - command_count + 1)..next_id : id \in finished}

\* C16: no pipelining.  Outside the submission and the completion wait of a
\* message, and so when the dispatcher starts to submit the next one, no
\* command is queued or in execution, no light task holds light_mutex and
\* sequence_sem is 0; and the signals taken in a completion wait are never
\* more than the commands of that message that have been executed.
C16_NoPipelining ==
    /\ (d_pc \in {"idle", "get", "parse"} \/ (d_pc = "entry" /\ command_count = 0))
       => Quiet
    /\ d_pc = "wait" => taken_signals <= Cardinality(DoneOfMessage)

\* The dispatcher is about to submit the first command of a message after
\* the commands of an earlier message have been executed.
C16_NextMessage ==
    /\ d_pc = "entry"
    /\ command_count = 0
    /\ r = 0
    /\ ptr = 0
    /\ ScanEntry(command_sequence).ret = 2
    /\ finished # {}


\* The number of entries of command_queue for channel c.
LedgerCount(c) ==
    Cardinality({i \in 1..Len(command_queue) : command_queue[i].color = c})

\* C17: a claimed turn finds work.  The FIFO of each channel holds at least
\* as many items as command_queue holds entries for the channel, and one
\* more while its light task has removed its entry and not yet taken the
\* item; so k_fifo_get on the own FIFO never returns NULL.
C17_ClaimFindsWork ==
    \A c \in Workers :
        /\ Len(fifo[c]) >=
              LedgerCount(c) + (IF w_pc[c] \in {"olock", "oget"} THEN 1 ELSE 0)
        /\ w_pc[c] = "oget" => fifo[c] # <<>>

\* A light task is about to take its item while command_queue holds a
\* further entry for its channel.
C17_ClaimedWithMore ==
    \E c \in Workers : w_pc[c] = "oget" /\ LedgerCount(c) >= 1


\* The commands of channel R, G or Y submitted so far with no command of an
\* unrecognised channel before them.
Eligible == {id \in 1..Len(cmds) : \A j \in 1..id : Recognised(j)}

\* C18: every recognised command is executed.  Under fair scheduling, again
\* and again every command of channel R, G or Y submitted so far with no
\* unrecognised command before it has been executed, none of them twice, and
\* no light task is pending on its condvar with an item in its FIFO.  The
\* commands submitted and the commands executed only grow, so each such
\* command is eventually executed, exactly once.
C18_EventuallyExecuted ==
    []<>(/\ Eligible \subseteq finished
         /\ \A i, j \in 1..Len(started) : started[i] = started[j] => i = j
         /\ \A w \in Workers : ~(w_pc[w] = "wait" /\ fifo[w] # <<>>))

\* Both passes of the message R,1T,2 have been executed, each once.
C18_AllExecuted ==
    /\ Len(cmds) = 2
    /\ finished = {1, 2}
    /\ Len(started) = 2
    /\ \A w \in Workers : fifo[w] = <<>>


\* The ids of the commands of channel c among the ids of sequence s, in the
\* order of s.
OfChannel(s, c) == SelectSeq(s, LAMBDA id : cmds[id][1] = c)

\* C19: per-channel order and ownership.  The item a light task holds is a
\* command of its own channel with the duration the dispatcher submitted;
\* the items in a FIFO are, in order, submitted commands still to come; and
\* the commands of a channel whose output section was entered are, in order,
\* the first commands submitted for that channel.
C19_ChannelOrder ==
    \A w \in Workers :
        /\ w_pc[w] \in {"light", "on", "add", "give"}
           => /\ item[w].id \in 1..Len(cmds)
              /\ cmds[item[w].id] = <<w, item[w].duration>>
        /\ IsPrefix(OfChannel(started, w), OfChannel([i \in 1..Len(cmds) |-> i], w))
        /\ \A i \in 1..Len(fifo[w]) :
              /\ \A k \in 1..Len(started) : started[k] # fifo[w][i].id
              /\ \A j \in 1..(i - 1) : fifo[w][j].id < fifo[w][i].id

\* A light task is in the output section for the second command of its
\* channel.
C19_SecondOfChannel ==
    \E w \in Workers :
        /\ w_pc[w] = "on"
        /\ Len(OfChannel(started, w)) = 2
        /\ started[Len(started)] = item[w].id


\* The sum of the durations of the commands cs.
RECURSIVE SumOfDurations(_)
SumOfDurations(cs) ==
    IF cs = <<>> THEN 0 ELSE cs[1][2] + SumOfDurations(Tail(cs))

\* C20: aggregate busy time.  The elapsed time a light task measures for a
\* command is the duration of the command, with no time spent waiting for
\* light_mutex in it; and when the completion wait of a message of
\* recognised commands is over, total_duration_us is the sum of the
\* durations of the commands of that message.
C20_BusyTime ==
    /\ \A w \in Workers :
          w_pc[w] \in {"add", "give"} => elapsed[w] = item[w].duration
    /\ (d_pc = "wait" /\ sem_i >= command_count /\ AllRecognised)
       => total_duration_us = SumOfDurations(submitted)


\* C21: output levels follow the lock holder.  When no light task holds
\* light_mutex both LEDs are off; while a light task is in its delay holding
\* light_mutex, the LEDs that are on are those of its channel: red only for
\* R, green only for G, both for Y.
C21_LedsFollowHolder ==
    /\ light_mutex = "none" => (leds.red = 0 /\ leds.green = 0)
    /\ (w_pc["R"] = "on" /\ light_mutex = "R") => (leds.red = 1 /\ leds.green = 0)
    /\ (w_pc["G"] = "on" /\ light_mutex = "G") => (leds.red = 0 /\ leds.green = 1)
    /\ (w_pc["Y"] = "on" /\ light_mutex = "Y") => (leds.red = 1 /\ leds.green = 1)

\* The yellow task is in its delay with both LEDs on, after the red and the
\* green task have each had the output.
C21_YellowAfterOthers ==
    /\ w_pc["Y"] = "on"
    /\ light_mutex = "Y"
    /\ leds = [red |-> 1, green |-> 1]
    /\ \E i, j \in finished : cmds[i][1] = "R" /\ cmds[j][1] = "G"

=============================================================================
